---- MODULE Spec2Model ----
(***************************************************************************)
(* State-machine model of Framework::PathUtils (src/src/PathUtils.cpp).    *)
(*                                                                         *)
(* A path is the sequence of the elements fs::path iteration yields        *)
(* ("/opt/TeknoParrot" is <<"/", "opt", "TeknoParrot">>).  The filesystem  *)
(* is the set of paths that are directories and the set of paths that are  *)
(* other entries (regular files), plus the per-path conditions that make   *)
(* an existence probe or a creation fail.  Each thread runs one call at a  *)
(* time; a call is a sequence of steps, one per statement that reads or    *)
(* writes the filesystem or the function-local statics.                    *)
(***************************************************************************)
EXTENDS Naturals, Sequences, FiniteSets, TLC

\* ------------------------------------------------------------------ bounds
\* calls started in one run
MaxCalls == 2
\* changes of the environment (executable lookup, filesystem) made from outside
MaxEnvChanges == 1

\* ------------------------------------------------------------ path values
Empty == << >>
\* an indeterminate fs::path value, read or written under a data race
Torn == <<"?">>
ExeDir == <<"/", "opt">>
WorkDir == <<"/", "work">>
AppDirEnv == <<"/", "mnt">>
HostFilesDir == <<"/", "data", "files">>
HostCacheDir == <<"/", "data", "cache">>

Platforms == {"linux", "win32", "android"}
ThreadIds == {1, 2}

Parent(p) == SubSeq(p, 1, Len(p) - 1)
Prefix(p, k) == SubSeq(p, 1, k)
Prefixes(p) == {SubSeq(p, 1, k) : k \in 1..Len(p)}
IsUnder(p, q) == Len(q) <= Len(p) /\ SubSeq(p, 1, Len(q)) = q

\* ------------------------------------------------- role tables (by build)
RoamingSub(plat) == <<"AppData", "Roaming">>
PersonalSub(plat) == <<"Documents">>
CacheSub(plat) == IF plat = "win32" THEN <<"AppData", "Local", "Cache">> ELSE <<"Cache">>
RoleSub(plat, op) ==
    CASE op = "GetRoamingDataPath" -> RoamingSub(plat)
      [] op = "GetPersonalDataPath" -> PersonalSub(plat)
      [] op = "GetCachePath" -> CacheSub(plat)
      [] OTHER -> Empty
ResolverOps == {"GetRoamingDataPath", "GetPersonalDataPath", "GetCachePath"}

\* GetExecutableDirectory: the OS query, or the current directory when it fails
GetExecutableDirectory(e) == IF e.exeOk THEN ExeDir ELSE WorkDir

BaseOf(dir) == dir \o <<"TeknoParrot">>

\* ------------------------------------------------------ std::filesystem
IsDir(f, p) == p \in f.dirs
IsFile(f, p) == p \in f.files
Present(f, p) == IsDir(f, p) \/ IsFile(f, p)

\* fs::exists(p, ec): the outcomes the library can report for p.  A path whose
\* status cannot be read reports the error; an absent path is reported as
\* "not there", with or without the not-found code, as the library chooses.
ExistsOutcomes(f, pm, p) ==
    IF p \in pm.denied THEN {[exists |-> FALSE, ec |-> "ACCESS_DENIED"]}
    ELSE IF p \in pm.ioerr THEN {[exists |-> FALSE, ec |-> "IO"]}
    ELSE IF Present(f, p) THEN {[exists |-> TRUE, ec |-> "OK"]}
    ELSE {[exists |-> FALSE, ec |-> "OK"], [exists |-> FALSE, ec |-> "NOT_FOUND"]}

\* Whether mkdir(p) can succeed: p absent, its parent a directory that accepts
\* new entries, and p itself reachable.
CanMkdir(f, pm, p) ==
    /\ ~Present(f, p)
    /\ p \notin (pm.denied \cup pm.ioerr)
    /\ (Len(p) > 1 => IsDir(f, Parent(p)))
    /\ Parent(p) \notin pm.readonly

AddDir(f, p) == [f EXCEPT !.dirs = @ \cup {p}]

\* A variant of fs::create_directory(p) that reports an existing directory as an error.
CreateDirectoryExistingIsError(f, pm, p) ==
    IF CanMkdir(f, pm, p) THEN [threw |-> FALSE, made |-> TRUE, fs |-> AddDir(f, p)]
    ELSE [threw |-> TRUE, made |-> FALSE, fs |-> f]

\* A variant that is the error_code overload: a failure is dropped.
CreateDirectoryNoThrow(f, pm, p) ==
    IF CanMkdir(f, pm, p) THEN [threw |-> FALSE, made |-> TRUE, fs |-> AddDir(f, p)]
    ELSE [threw |-> FALSE, made |-> FALSE, fs |-> f]

\* fs::create_directory(p), the throwing overload: false without an error when p
\* is already a directory, filesystem_error on any other failure.
CreateDirectory(f, pm, p) ==
    IF IsDir(f, p) /\ p \notin (pm.denied \cup pm.ioerr)
    THEN [threw |-> FALSE, made |-> FALSE, fs |-> f]
    ELSE IF CanMkdir(f, pm, p) THEN [threw |-> FALSE, made |-> TRUE, fs |-> AddDir(f, p)]
    ELSE [threw |-> TRUE, made |-> FALSE, fs |-> f]

\* fs::create_directories(p, ec): creates the missing prefixes from the root
\* down and stops, leaving what it made, at the first one it cannot create.
RECURSIVE CreateDirectoriesFrom(_, _, _, _)
CreateDirectoriesFrom(f, pm, p, k) ==
    IF k > Len(p) THEN f
    ELSE IF IsDir(f, Prefix(p, k)) THEN CreateDirectoriesFrom(f, pm, p, k + 1)
    ELSE IF CanMkdir(f, pm, Prefix(p, k))
         THEN CreateDirectoriesFrom(AddDir(f, Prefix(p, k)), pm, p, k + 1)
    ELSE f
CreateDirectories(f, pm, p) ==
    IF p \in (pm.denied \cup pm.ioerr) THEN f ELSE CreateDirectoriesFrom(f, pm, p, 1)

\* ------------------------------------------------------------------ state
VARIABLES
    platform,         \* the build: which #if branch of the file was compiled
    threads,          \* the threads that call into PathUtils
    fs,               \* [dirs, files]: the paths that are directories / other entries
    perm,             \* [denied, ioerr, readonly]: paths whose probe or mkdir fails
    env,              \* [exeOk, appimage, appdir]: OS lookup and environment variables
    initialized,      \* static bool initialized        (GetTeknoParrotBaseDirectory)
    teknoParrotPath,  \* static fs::path teknoParrotPath (GetTeknoParrotBaseDirectory)
    s_filesDirPath,   \* static fs::path s_filesDirPath  (Android)
    s_cacheDirPath,   \* static fs::path s_cacheDirPath  (Android)
    writers,          \* threads in the middle of assigning teknoParrotPath
    th,               \* per thread: position in its call, locals, record of the call
    g                 \* history of the run (counters, first base, last finished call)

vars == <<platform, threads, fs, perm, env, initialized, teknoParrotPath,
          s_filesDirPath, s_cacheDirPath, writers, th, g>>

NoPerm == [denied |-> {}, ioerr |-> {}, readonly |-> {}]
NoRes == [status |-> "none", path |-> Empty]
NoCall == [op |-> "none", path |-> Empty, status |-> "none", made |-> {},
           fs |-> [dirs |-> {}, files |-> {}], clean |-> FALSE]

\* A thread between calls.  probes[k] is the code the probe of prefix k reported;
\* attempts and made are the prefixes on which create_directory was called and
\* which it created; failedAt is the prefix whose creation failed (0: none).
IdleThread ==
    [pc |-> "idle", op |-> "none", path |-> Empty, idx |-> 0, base |-> Empty,
     res |-> NoRes, probes |-> << >>, attempts |-> {}, made |-> {}, failedAt |-> 0,
     quiet |-> FALSE, prev |-> NoCall]

G0 ==
    [calls |-> 0, envChanges |-> 0, baseCalls |-> 0, baseLookups |-> 0, baseProbes |-> 0, baseCreates |-> 0,
     firstBase |-> Empty, raced |-> FALSE,
     last |-> [op |-> "none", path |-> Empty, status |-> "none", made |-> {},
               fs |-> [dirs |-> {}, files |-> {}]],
     retBefore |-> [op \in ResolverOps \cup {"GetAppResourcesPath"} |-> Empty],
     changed |-> FALSE]

\* --------------------------------------------------------- initial states
Base0 == BaseOf(ExeDir)
Targets(plat) == {Base0 \o RoleSub(plat, op) : op \in ResolverOps}
AlwaysDirs == {<<"/">>, ExeDir, WorkDir}
\* the paths under the executable's directory that the build can touch
Universe(plat) == (UNION {Prefixes(t) : t \in Targets(plat)}) \ {<<"/">>, ExeDir}

\* Directory layouts: nothing of the application yet, only the base, the base
\* and its first child, or every role directory of the build.
DirConfigs(plat) ==
    {AlwaysDirs, AlwaysDirs \cup UNION {Prefixes(t) : t \in Targets(plat)}}
    \cup (IF plat = "android" THEN {}
          ELSE {AlwaysDirs \cup {Base0}, AlwaysDirs \cup {Base0, Base0 \o <<"AppData">>}})

\* One irregularity of the layout: a regular file in place of a directory, a
\* path (or a subtree) whose status cannot be read, a directory that takes no
\* new entries.  The Android build runs the Linux code of EnsurePathExists
\* and starts from the regular layouts; the Windows build differs from the
\* Linux one in the error codes of the probe.
AnomalyKinds(plat) ==
    CASE plat = "linux" -> {"file", "denied", "ioerr"}
      [] plat = "win32" -> {"denied", "deniedTree", "ioerr"}
      [] OTHER -> {}
Anomalies(plat) ==
    {[kind |-> "none", node |-> Empty]}
    \cup {[kind |-> k, node |-> n] : k \in AnomalyKinds(plat), n \in Universe(plat)}
    \cup {[kind |-> "readonly", node |-> n] : n \in (IF plat = "linux" THEN {ExeDir, Base0} ELSE {})}

FsWith(dirs, a) ==
    IF a.kind = "file" /\ Parent(a.node) \in dirs
    THEN [dirs |-> {d \in dirs : ~IsUnder(d, a.node)}, files |-> {a.node}]
    ELSE [dirs |-> dirs, files |-> {}]

PermWith(plat, a) ==
    CASE a.kind = "denied" -> [NoPerm EXCEPT !.denied = {a.node}]
      [] a.kind = "deniedTree" ->
            [NoPerm EXCEPT !.denied = {n \in Universe(plat) : IsUnder(n, a.node)}]
      [] a.kind = "ioerr" -> [NoPerm EXCEPT !.ioerr = {a.node}]
      [] a.kind = "readonly" -> [NoPerm EXCEPT !.readonly = {a.node}]
      [] OTHER -> NoPerm

InitProcess ==
    /\ initialized = FALSE
    /\ teknoParrotPath = Empty
    /\ s_filesDirPath = Empty
    /\ s_cacheDirPath = Empty
    /\ writers = {}
    /\ th = [t \in ThreadIds |-> IdleThread]
    /\ g = G0

\* One thread; any layout with one irregularity; no packaging environment.
Init ==
    /\ InitProcess
    /\ threads = {1}
    /\ platform \in Platforms
    /\ \E dirs \in DirConfigs(platform), a \in Anomalies(platform) :
          /\ fs = FsWith(dirs, a)
          /\ perm = PermWith(platform, a)
    /\ env = [exeOk |-> TRUE, appimage |-> FALSE, appdir |-> FALSE]

\* ------------------------------------------------------- call bookkeeping
Resting(t) == th[t].pc \in {"idle", "done"}
\* The Android build has the two setters besides: its runs get one call more.
CallBudget == IF platform = "android" THEN MaxCalls + 1 ELSE MaxCalls
CanCall(t) == t \in threads /\ Resting(t) /\ g.calls < CallBudget

\* The thread record at the start of a call: the record of the call that
\* finished last, and whether the outside left the filesystem alone since.
Started(op, path, pc) ==
    [IdleThread EXCEPT !.pc = pc, !.op = op, !.path = path,
        !.prev = [op |-> g.last.op, path |-> g.last.path, status |-> g.last.status,
                  made |-> g.last.made, fs |-> g.last.fs, clean |-> ~g.changed]]

\* The thread record and the history at the end of a call.
Ended(r, status, path) == [r EXCEPT !.pc = "done", !.res = [status |-> status, path |-> path]]
\* retBefore[op] is what op returned while the host had supplied no directory yet.
Noted(gg, r, status, f) ==
    [gg EXCEPT !.last = [op |-> r.op, path |-> r.path, status |-> status, made |-> r.made, fs |-> f],
               !.retBefore = IF /\ r.op \in DOMAIN @ /\ status = "returned" /\ @[r.op] = Empty
                                /\ s_filesDirPath = Empty /\ s_cacheDirPath = Empty
                             THEN [@ EXCEPT ![r.op] = r.res.path] ELSE @,
               !.changed = FALSE]

Statics == <<initialized, teknoParrotPath, s_filesDirPath, s_cacheDirPath, writers>>
World == <<platform, threads, perm, env>>

\* ------------------------------------------------ GetTeknoParrotBaseDirectory
\* the thread is inside the if(!initialized) block
InInit(t) ==
    th[t].pc \in {"base_exe", "base_store", "base_store_end", "base_probe", "base_create",
                  "base_flag"}

\* if(!initialized).  quiet: the flag is set, one thread alone has run the
\* block and no other thread is inside it.
BaseCheck(t) ==
    /\ t \in threads /\ th[t].pc = "base_check"
    /\ th' = [th EXCEPT ![t].pc = IF initialized THEN "base_read" ELSE "base_exe",
                        ![t].quiet = /\ initialized /\ g.baseLookups = 1
                                     /\ \A u \in threads \ {t} : ~InInit(u)]
    /\ g' = [g EXCEPT !.baseCalls = @ + 1]
    /\ UNCHANGED <<World, fs, Statics>>

\* GetExecutableDirectory() / "TeknoParrot", the value about to be assigned
BaseExe(t) ==
    /\ t \in threads /\ th[t].pc = "base_exe"
    /\ th' = [th EXCEPT ![t].pc = "base_store",
                        ![t].base = BaseOf(GetExecutableDirectory(env))]
    /\ g' = [g EXCEPT !.baseLookups = @ + 1]
    /\ UNCHANGED <<World, fs, Statics>>

\* The value a store to teknoParrotPath leaves, given the other threads that
\* are storing to it at the same time: unsynchronised stores are a data race.
StoreOutcomes(v, others) == IF others = {} THEN {v} ELSE {v, Torn}
\* The value a load of teknoParrotPath yields under the same condition.
LoadOutcomes(v, others) == IF others = {} THEN {v} ELSE {v, Torn}

\* teknoParrotPath = ...: the assignment begins
BaseStoreBegin(t) ==
    /\ t \in threads /\ th[t].pc = "base_store"
    /\ writers' = writers \cup {t}
    /\ th' = [th EXCEPT ![t].pc = "base_store_end"]
    /\ UNCHANGED <<World, fs, initialized, teknoParrotPath, s_filesDirPath, s_cacheDirPath, g>>

\* ... and ends
BaseStoreEnd(t) ==
    /\ t \in threads /\ th[t].pc = "base_store_end"
    /\ \E v \in StoreOutcomes(th[t].base, writers \ {t}) :
          /\ teknoParrotPath' = v
          /\ g' = [g EXCEPT !.firstBase = IF @ = Empty THEN v ELSE @,
                            !.raced = @ \/ (writers \ {t} # {})]
    /\ writers' = writers \ {t}
    /\ th' = [th EXCEPT ![t].pc = "base_probe"]
    /\ UNCHANGED <<World, fs, initialized, s_filesDirPath, s_cacheDirPath>>

\* if(!fs::exists(teknoParrotPath, ec))
BaseProbe(t) ==
    /\ t \in threads /\ th[t].pc = "base_probe"
    /\ \E v \in LoadOutcomes(teknoParrotPath, writers \ {t}) :
          IF v = Torn
          THEN /\ th' = [th EXCEPT ![t] = Ended(@, "undefined", Empty)]
               /\ g' = Noted([g EXCEPT !.raced = TRUE], Ended(th[t], "undefined", Empty),
                             "undefined", fs)
          ELSE /\ \E r \in ExistsOutcomes(fs, perm, v) :
                     th' = [th EXCEPT ![t].pc = IF r.exists THEN "base_flag" ELSE "base_create"]
               /\ g' = [g EXCEPT !.baseProbes = @ + 1, !.raced = @ \/ (writers \ {t} # {})]
    /\ UNCHANGED <<World, fs, Statics>>

\* fs::create_directories(teknoParrotPath, ec): the error is dropped
BaseCreate(t) ==
    /\ t \in threads /\ th[t].pc = "base_create"
    /\ \E v \in LoadOutcomes(teknoParrotPath, writers \ {t}) :
          IF v = Torn
          THEN /\ th' = [th EXCEPT ![t] = Ended(@, "undefined", Empty)]
               /\ g' = Noted([g EXCEPT !.raced = TRUE], Ended(th[t], "undefined", Empty),
                             "undefined", fs)
               /\ fs' = fs
          ELSE /\ fs' = CreateDirectories(fs, perm, v)
               /\ th' = [th EXCEPT ![t].pc = "base_flag"]
               /\ g' = [g EXCEPT !.baseCreates = @ + 1, !.raced = @ \/ (writers \ {t} # {})]
    /\ UNCHANGED <<World, Statics>>

\* A variant that forgets to set the flag.
FlagAfterInitNever == FALSE
\* initialized = true
FlagAfterInit == TRUE

BaseFlag(t) ==
    /\ t \in threads /\ th[t].pc = "base_flag"
    /\ initialized' = FlagAfterInit
    /\ th' = [th EXCEPT ![t].pc = "base_read"]
    /\ UNCHANGED <<World, fs, teknoParrotPath, s_filesDirPath, s_cacheDirPath, writers, g>>

\* A variant of the Android build that prefers the directory the host supplied.
ResolverBaseHostFirst(plat, cached, filesDir) ==
    IF plat = "android" /\ filesDir # Empty THEN filesDir ELSE cached
\* The directory a role resolver builds its path on: the value
\* GetTeknoParrotBaseDirectory returned, whatever the host supplied.
ResolverBase(plat, cached, filesDir) == cached

\* return teknoParrotPath; and, in the caller, the role's path built on it.
\* GetAppResourcesPath (Android) returns the base itself and ensures nothing.
BaseRead(t) ==
    /\ t \in threads /\ th[t].pc = "base_read"
    /\ \E v \in LoadOutcomes(teknoParrotPath, writers \ {t}) :
          LET b == ResolverBase(platform, v, s_filesDirPath) IN
          IF v = Torn
          THEN /\ th' = [th EXCEPT ![t] = Ended(@, "undefined", Empty)]
               /\ g' = Noted([g EXCEPT !.raced = TRUE], Ended(th[t], "undefined", Empty),
                             "undefined", fs)
          ELSE IF th[t].op = "GetAppResourcesPath"
          THEN /\ th' = [th EXCEPT ![t] = Ended([@ EXCEPT !.base = v], "returned", v)]
               /\ g' = Noted([g EXCEPT !.raced = @ \/ (writers \ {t} # {})],
                             Ended(th[t], "returned", v), "returned", fs)
          ELSE /\ th' = [th EXCEPT ![t].pc = "loop", ![t].base = v,
                                   ![t].path = b \o RoleSub(platform, th[t].op)]
               /\ g' = [g EXCEPT !.raced = @ \/ (writers \ {t} # {})]
    /\ UNCHANGED <<World, fs, Statics>>

\* ----------------------------------------------------------- role resolvers
\* auto path = GetTeknoParrotBaseDirectory() / ...; the call starts in
\* GetTeknoParrotBaseDirectory and goes on to EnsurePathExists(path).
GetRoamingDataPath(t) ==
    /\ CanCall(t)
    /\ th' = [th EXCEPT ![t] = Started("GetRoamingDataPath", Empty, "base_check")]
    /\ g' = [g EXCEPT !.calls = @ + 1]
    /\ UNCHANGED <<World, fs, Statics>>

GetPersonalDataPath(t) ==
    /\ CanCall(t)
    /\ th' = [th EXCEPT ![t] = Started("GetPersonalDataPath", Empty, "base_check")]
    /\ g' = [g EXCEPT !.calls = @ + 1]
    /\ UNCHANGED <<World, fs, Statics>>

GetCachePath(t) ==
    /\ CanCall(t)
    /\ th' = [th EXCEPT ![t] = Started("GetCachePath", Empty, "base_check")]
    /\ g' = [g EXCEPT !.calls = @ + 1]
    /\ UNCHANGED <<World, fs, Statics>>

\* Android returns GetTeknoParrotBaseDirectory(); the other builds look at the
\* environment and the disk (ResourcesStep).
GetAppResourcesPath(t) ==
    /\ CanCall(t)
    /\ th' = [th EXCEPT ![t] = Started("GetAppResourcesPath", Empty,
                                       IF platform = "android" THEN "base_check" ELSE "resources")]
    /\ g' = [g EXCEPT !.calls = @ + 1]
    /\ UNCHANGED <<World, fs, Statics>>

AppImageShare == AppDirEnv \o <<"usr", "share">>
FlatpakShare == <<"/", "app", "share">>

\* fs::exists(p, ec) && !ec
ExistsNoError(f, pm, p) == \E r \in ExistsOutcomes(f, pm, p) : r.exists /\ r.ec = "OK"

\* The results of GetAppResourcesPath on the builds that compute it in place.
\* fs::path(getenv("APPDIR")) with APPDIR unset constructs a path from a null
\* pointer: undefined behaviour, whatever the build makes of it.
ResourcesOutcomes(plat, e, f, pm) ==
    IF plat = "win32" THEN {[status |-> "returned", path |-> GetExecutableDirectory(e)]}
    ELSE IF e.appimage /\ ~e.appdir THEN {[status |-> "undefined", path |-> Empty]}
    ELSE IF e.appimage /\ ExistsNoError(f, pm, AppImageShare)
         THEN {[status |-> "returned", path |-> AppImageShare]}
    ELSE IF ExistsNoError(f, pm, FlatpakShare)
         THEN {[status |-> "returned", path |-> FlatpakShare]}
    ELSE {[status |-> "returned", path |-> GetExecutableDirectory(e)]}

ResourcesStep(t) ==
    /\ t \in threads /\ th[t].pc = "resources"
    /\ \E o \in ResourcesOutcomes(platform, env, fs, perm) :
          /\ th' = [th EXCEPT ![t] = Ended(@, o.status, o.path)]
          /\ g' = Noted(g, Ended(th[t], o.status, o.path), o.status, fs)
    /\ UNCHANGED <<World, fs, Statics>>

\* s_filesDirPath = filesDirPath;  (Android only)
SetFilesDirPath(t) ==
    /\ CanCall(t) /\ platform = "android"
    /\ s_filesDirPath' = HostFilesDir
    /\ th' = [th EXCEPT ![t] = Ended(Started("SetFilesDirPath", Empty, "done"), "returned", Empty)]
    /\ g' = Noted([g EXCEPT !.calls = @ + 1], Started("SetFilesDirPath", Empty, "done"),
                  "returned", fs)
    /\ UNCHANGED <<World, fs, initialized, teknoParrotPath, s_cacheDirPath, writers>>

\* s_cacheDirPath = cacheDirPath;  (Android only)
SetCacheDirPath(t) ==
    /\ CanCall(t) /\ platform = "android"
    /\ s_cacheDirPath' = HostCacheDir
    /\ th' = [th EXCEPT ![t] = Ended(Started("SetCacheDirPath", Empty, "done"), "returned", Empty)]
    /\ g' = Noted([g EXCEPT !.calls = @ + 1], Started("SetCacheDirPath", Empty, "done"),
                  "returned", fs)
    /\ UNCHANGED <<World, fs, initialized, teknoParrotPath, s_filesDirPath, writers>>

\* ------------------------------------------------------- EnsurePathExists
\* the path handed to EnsurePathExists directly
EnsureInputs == {Base0 \o <<"AppData", "Roaming">>}

EnsurePathExists(t) ==
    /\ CanCall(t)
    /\ \E p \in EnsureInputs : th' = [th EXCEPT ![t] = Started("EnsurePathExists", p, "loop")]
    /\ g' = [g EXCEPT !.calls = @ + 1]
    /\ UNCHANGED <<World, fs, Statics>>

\* A variant without the Windows branch.
ProbeActionPosixOnly(plat, r) ==
    IF r.ec # "OK"
    THEN (IF r.ec = "NOT_FOUND" THEN "create" ELSE "throw")
    ELSE IF r.exists THEN "next" ELSE "create"

\* A variant that takes any error of the probe for absence.
ProbeActionLenient(plat, r) ==
    IF r.ec # "OK"
    THEN (IF plat = "win32" /\ r.ec = "ACCESS_DENIED" THEN "continue" ELSE "create")
    ELSE IF r.exists THEN "next" ELSE "create"

\* A variant that calls create_directory whether or not the prefix exists.
ProbeActionAlwaysCreate(plat, r) ==
    IF r.ec # "OK"
    THEN (IF plat = "win32" /\ r.ec = "ACCESS_DENIED" THEN "continue"
          ELSE IF r.ec = "NOT_FOUND" THEN "create" ELSE "throw")
    ELSE "create"

\* What the loop body does with the probe's result r: "continue" (skip the
\* rest of the body), "create" (exists = false), "next" (exists, nothing to
\* do) or "throw" (std::runtime_error).
ProbeAction(plat, r) ==
    IF r.ec # "OK"
    THEN (IF plat = "win32"
          THEN (IF r.ec = "ACCESS_DENIED" THEN "continue"
                ELSE IF r.ec = "NOT_FOUND" THEN "create" ELSE "throw")
          ELSE (IF r.ec = "NOT_FOUND" THEN "create" ELSE "throw"))
    ELSE IF r.exists THEN "next" ELSE "create"

\* what a call hands back when it returns: the resolvers their path
RetPath(r) == IF r.op \in ResolverOps THEN r.path ELSE Empty

\* The thread after the body of iteration k: the loop goes on, or the call returns.
Advance(r) ==
    IF r.idx = Len(r.path) THEN Ended(r, "returned", RetPath(r)) ELSE [r EXCEPT !.pc = "loop"]

\* buildPath /= *pathIterator; exists = fs::exists(buildPath, ec); if(ec) ...
EnsureProbe(t) ==
    /\ t \in threads /\ th[t].pc = "loop"
    /\ LET k == th[t].idx + 1
           p == Prefix(th[t].path, k)
       IN \E r \in ExistsOutcomes(fs, perm, p) :
            LET a == ProbeAction(platform, r)
                probed == [th[t] EXCEPT !.idx = k, !.probes = Append(@, r.ec)]
                after == CASE a = "throw" -> Ended(probed, "runtime_error", Empty)
                           [] a = "create" -> [probed EXCEPT !.pc = "create"]
                           [] OTHER -> Advance(probed)
            IN /\ th' = [th EXCEPT ![t] = after]
               /\ g' = IF after.pc = "done" THEN Noted(g, after, after.res.status, fs) ELSE g
    /\ UNCHANGED <<World, fs, Statics>>

\* if(!exists) fs::create_directory(buildPath);
EnsureCreate(t) ==
    /\ t \in threads /\ th[t].pc = "create"
    /\ LET k == th[t].idx
           p == Prefix(th[t].path, k)
           c == CreateDirectory(fs, perm, p)
           failed == c.threw \/ (~c.made /\ ~IsDir(fs, p))
           tried == [th[t] EXCEPT !.attempts = @ \cup {k},
                                  !.made = IF c.made THEN @ \cup {k} ELSE @,
                                  !.failedAt = IF failed THEN k ELSE @]
           after == IF c.threw THEN Ended(tried, "filesystem_error", Empty) ELSE Advance(tried)
       IN /\ fs' = c.fs
          /\ th' = [th EXCEPT ![t] = after]
          /\ g' = IF after.pc = "done" THEN Noted(g, after, after.res.status, c.fs) ELSE g
    /\ UNCHANGED <<World, Statics>>

\* ------------------------------------------------------- the outside world
\* The outside acts between calls; the calls made before are then over.
BetweenCalls ==
    /\ \A t \in threads : Resting(t)
    /\ 0 < g.calls /\ g.calls < CallBudget
    /\ g.envChanges < MaxEnvChanges
Rested == [t \in ThreadIds |-> IdleThread]

\* The executable lookup starts to fail, or to work again (the process was
\* moved, /proc came or went): GetExecutableDirectory answers differently.
ExeLookupChange ==
    /\ BetweenCalls
    /\ env' = [env EXCEPT !.exeOk = ~@]
    /\ th' = Rested
    /\ g' = [g EXCEPT !.envChanges = @ + 1, !.changed = TRUE]
    /\ UNCHANGED <<platform, threads, perm, fs, Statics>>

\* Somebody removes the application's directory tree.
ExternalRemove ==
    /\ BetweenCalls
    /\ fs' = [dirs |-> {d \in fs.dirs : ~IsUnder(d, Base0)},
              files |-> {d \in fs.files : ~IsUnder(d, Base0)}]
    /\ fs' # fs
    /\ th' = Rested
    /\ g' = [g EXCEPT !.envChanges = @ + 1, !.changed = TRUE]
    /\ UNCHANGED <<World, Statics>>

\* ------------------------------------------------------------ specification
\* the steps inside a call
Step(t) ==
    \/ BaseCheck(t)
    \/ BaseExe(t)
    \/ BaseStoreBegin(t)
    \/ BaseStoreEnd(t)
    \/ BaseProbe(t)
    \/ BaseCreate(t)
    \/ BaseFlag(t)
    \/ BaseRead(t)
    \/ ResourcesStep(t)
    \/ EnsureProbe(t)
    \/ EnsureCreate(t)

\* the calls every build offers
Call(t) ==
    \/ GetRoamingDataPath(t)
    \/ GetPersonalDataPath(t)
    \/ GetCachePath(t)
    \/ GetAppResourcesPath(t)
    \/ EnsurePathExists(t)

Outside == ExeLookupChange \/ ExternalRemove

Next ==
    \/ \E t \in ThreadIds : Call(t) \/ SetFilesDirPath(t) \/ SetCacheDirPath(t) \/ Step(t)
    \/ Outside

\* the builds without the setters
NextDesktop ==
    \/ \E t \in ThreadIds : Call(t) \/ Step(t)
    \/ Outside

Spec == Init /\ [][Next]_vars

\* One thread; the regular layouts; every packaging environment: the marker
\* variable APPIMAGE, its companion APPDIR, and the two candidate directories
\* on disk or not.
CandidateDirs == {{}, Prefixes(AppImageShare), Prefixes(FlatpakShare),
                  Prefixes(AppImageShare) \cup Prefixes(FlatpakShare)}
InitEnv ==
    /\ InitProcess
    /\ threads = {1}
    /\ platform \in {"linux", "win32"}
    /\ \E c \in CandidateDirs : fs = [dirs |-> AlwaysDirs \cup c, files |-> {}]
    /\ perm = NoPerm
    /\ env \in [exeOk : {TRUE}, appimage : BOOLEAN, appdir : BOOLEAN]
SpecEnv == InitEnv /\ [][NextDesktop]_vars

\* the calls of the threads alone: nothing changes from outside
NextThreads == \E t \in ThreadIds : Call(t) \/ Step(t)

\* Two threads; the regular layouts; nothing that makes a probe or a creation fail.
InitThreads ==
    /\ InitProcess
    /\ threads = {1, 2}
    /\ platform = "linux"
    /\ \E dirs \in DirConfigs(platform) : fs = [dirs |-> dirs, files |-> {}]
    /\ perm = NoPerm
    /\ env = [exeOk |-> TRUE, appimage |-> FALSE, appdir |-> FALSE]
SpecThreads == InitThreads /\ [][NextThreads]_vars

\* ------------------------------------------------------------------ claims
Done(t) == t \in threads /\ th[t].pc = "done"
Returned(t) == Done(t) /\ th[t].res.status = "returned"
EnsureOps == ResolverOps \cup {"EnsurePathExists"}
\* the call of t went through EnsurePathExists(th[t].path)
Ensured(t) == th[t].op \in EnsureOps /\ Len(th[t].probes) > 0
ProbeSaid(t, k, ec) == k \in 1..Len(th[t].probes) /\ th[t].probes[k] = ec
\* the call of t ended in the std::runtime_error thrown at prefix k
AbortedAt(t, k) == Done(t) /\ th[t].res.status = "runtime_error" /\ th[t].idx = k
\* the loop of t is past prefix k, or about to go past it
WentOn(t, k) == (th[t].pc = "loop" /\ th[t].idx = k) \/ Len(th[t].probes) > k

\* C1: when EnsurePathExists(P) returns normally, every prefix of P is a
\* directory.  (Stated as claimed; the code returns normally with a regular
\* file at the end of P.)
C1_EveryPrefixIsDirectory ==
    \A t \in threads :
        (Returned(t) /\ Ensured(t)) =>
            \A k \in 1..Len(th[t].path) : IsDir(fs, Prefix(th[t].path, k))

\* C2: on Linux a role resolver throws or returns a path that is a directory
\* when it returns, the base directory with it.  (Stated as claimed; the code
\* returns a path that is a regular file.)
C2_ResolverReturnsDirectory ==
    platform = "linux" =>
        \A t \in threads :
            (Returned(t) /\ th[t].op \in ResolverOps) =>
                IsDir(fs, th[t].res.path) /\ IsDir(fs, th[t].base)

\* C3, as claimed: a probe that reports permission-denied leads to no creation
\* of that prefix and no error, and the loop goes on to the next prefix.
C3_DeniedIsExisting ==
    \A t \in threads : \A k \in 1..Len(th[t].probes) :
        ProbeSaid(t, k, "ACCESS_DENIED") =>
            /\ k \notin th[t].attempts
            /\ ~AbortedAt(t, k)
            /\ (k < Len(th[t].path) => WentOn(t, k))

\* C3, amended: that holds of the Windows build only; on the other builds a
\* probe that reports permission-denied aborts the call with the runtime
\* error, the prefix not created and no deeper prefix probed.
C3_DeniedIsExistingOnWindowsOnly ==
    \A t \in threads : \A k \in 1..Len(th[t].probes) :
        ProbeSaid(t, k, "ACCESS_DENIED") =>
            /\ k \notin th[t].attempts
            /\ IF platform = "win32"
               THEN ~AbortedAt(t, k) /\ (k < Len(th[t].path) => WentOn(t, k))
               ELSE AbortedAt(t, k) /\ Len(th[t].probes) = k

C3_Witness ==
    \E t \in threads : \E k \in 1..Len(th[t].probes) :
        /\ platform = "win32"
        /\ ProbeSaid(t, k, "ACCESS_DENIED")
        /\ Len(th[t].probes) > k
        /\ Returned(t)

\* C4: a probe of prefix k that reports an error other than permission-denied
\* and not-found aborts the call with the runtime error: prefix k and the
\* deeper ones are not created, the deeper ones not probed, what the call
\* created before stays, and a resolver hands back no path.
C4_OtherProbeErrorIsFatal ==
    \A t \in threads : \A k \in 1..Len(th[t].probes) :
        ProbeSaid(t, k, "IO") =>
            /\ AbortedAt(t, k)
            /\ Len(th[t].probes) = k
            /\ \A j \in th[t].attempts : j < k
            /\ \A j \in th[t].made : IsDir(fs, Prefix(th[t].path, j))
            /\ th[t].res.path = Empty

C4_Witness ==
    \E t \in threads : \E k \in 1..Len(th[t].probes) :
        /\ ProbeSaid(t, k, "IO")
        /\ th[t].op \in ResolverOps
        /\ th[t].made # {}
        /\ Done(t)

\* C5, as claimed: a failed create_directory raises no error and the call
\* still returns normally.
C5_CreateFailureIgnored ==
    \A t \in threads :
        th[t].failedAt # 0 => (th[t].res.status # "filesystem_error" /\ (Done(t) => Returned(t)))

\* C5, amended: a failed create_directory (the throwing overload) ends the
\* call with its filesystem_error at that prefix: nothing deeper is probed or
\* created and no path is returned.  A prefix that is a directory by the time
\* of the call is no failure.
C5_CreateFailurePropagates ==
    \A t \in threads :
        /\ th[t].failedAt # 0 =>
              /\ Done(t) /\ th[t].res.status = "filesystem_error" /\ th[t].res.path = Empty
              /\ th[t].idx = th[t].failedAt
              /\ Len(th[t].probes) = th[t].failedAt
              /\ \A j \in th[t].attempts : j <= th[t].failedAt
        /\ \A k \in th[t].attempts :
              (k # th[t].failedAt /\ (k < th[t].idx \/ Done(t))) => IsDir(fs, Prefix(th[t].path, k))

C5_Witness ==
    \E t \in threads :
        th[t].failedAt # 0 /\ Done(t) /\ th[t].res.status = "filesystem_error"

\* C6: after EnsurePathExists(P) returned normally and with no change from
\* outside, the next EnsurePathExists(P) returns normally, calls
\* create_directory on nothing and leaves the filesystem as it was.
C6_Idempotent ==
    \A t \in threads :
        ( /\ Done(t) /\ Ensured(t)
          /\ th[t].prev.op \in EnsureOps /\ th[t].prev.status = "returned"
          /\ th[t].prev.path = th[t].path /\ th[t].prev.clean )
        => /\ Returned(t)
           /\ th[t].attempts = {} /\ th[t].made = {}
           /\ fs = th[t].prev.fs

C6_Witness ==
    \E t \in threads :
        /\ Returned(t) /\ th[t].op = "EnsurePathExists"
        /\ th[t].prev.op = "EnsurePathExists" /\ th[t].prev.status = "returned"
        /\ th[t].prev.path = th[t].path /\ th[t].prev.clean
        /\ th[t].prev.made # {}

\* C7: with one thread the base directory is computed once: one executable
\* lookup, one existence check and at most one creation, all of them in the
\* first call of GetTeknoParrotBaseDirectory; afterwards the cached value
\* stays and every resolver builds on it, whatever the executable lookup
\* would answer now.
C7_BaseComputedOnce ==
    /\ g.baseLookups <= 1 /\ g.baseProbes <= 1 /\ g.baseCreates <= 1
    /\ initialized => (g.baseLookups = 1 /\ teknoParrotPath = g.firstBase)
    /\ \A t \in threads :
          /\ (Returned(t) /\ th[t].op \in ResolverOps) =>
                th[t].res.path = g.firstBase \o RoleSub(platform, th[t].op)
          /\ InInit(t) => (~initialized /\ g.baseCalls = 1)

C7_Witness ==
    \E t \in threads :
        /\ Returned(t) /\ th[t].op \in ResolverOps
        /\ th[t].prev.op \in ResolverOps
        /\ g.baseLookups = 1
        /\ BaseOf(GetExecutableDirectory(env)) # teknoParrotPath
        /\ IsUnder(th[t].res.path, teknoParrotPath)

\* C8, as claimed (in part): the two threads make no conflicting access to
\* process state other than the filesystem, and no call ends other than some
\* sequential order of the calls would end it.
C8_StatelessAndSerializable ==
    /\ ~g.raced
    /\ \A t \in threads : Done(t) => th[t].res.status # "undefined"

\* a step of EnsurePathExists leaves the statics alone
EnsureStepKeepsStatics ==
    \A t \in threads :
        (th[t].pc \in {"loop", "create"} /\ th'[t] # th[t]) => UNCHANGED Statics

\* C8, amended: EnsurePathExists keeps no process state and two threads may
\* run it on overlapping paths: its steps touch only locals and the
\* filesystem, and a thread that finds a prefix created by the other in
\* between does not fail.  The resolvers go through the unsynchronised
\* statics of GetTeknoParrotBaseDirectory: a resolver call is sure of its
\* result only when it finds the base initialised by one thread alone.
C8_EnsureSafeResolversAfterInit ==
    /\ [][EnsureStepKeepsStatics]_vars
    /\ [](\A t \in threads :
            /\ (Done(t) /\ th[t].op = "EnsurePathExists") =>
                  /\ Returned(t)
                  /\ \A k \in 1..Len(th[t].path) : IsDir(fs, Prefix(th[t].path, k))
            /\ (Done(t) /\ th[t].op \in ResolverOps /\ th[t].quiet) =>
                  /\ Returned(t)
                  /\ th[t].res.path = g.firstBase \o RoleSub(platform, th[t].op)
                  /\ IsDir(fs, th[t].res.path))

\* a thread returned from EnsurePathExists having called create_directory on
\* a prefix the other thread had created in between
C8_Witness ==
    \E t \in threads :
        /\ Returned(t) /\ th[t].op = "EnsurePathExists"
        /\ th[t].attempts \ th[t].made # {}
        /\ \E u \in threads \ {t} : th[u].made # {}

\* the candidate GetAppResourcesPath is to return on Linux
ExpectedResources ==
    IF env.appimage /\ env.appdir /\ Present(fs, AppImageShare) THEN AppImageShare
    ELSE IF Present(fs, FlatpakShare) THEN FlatpakShare
    ELSE GetExecutableDirectory(env)

\* C9: on Linux GetAppResourcesPath returns the first candidate that matches
\* and exists (the AppImage share directory, /app/share, the executable's
\* directory), whatever the two variables and the disk hold.  (Stated as
\* claimed; with APPIMAGE set and APPDIR unset the code builds a path from a
\* null pointer.)
C9_FirstExistingCandidate ==
    platform = "linux" =>
        \A t \in threads :
            (Done(t) /\ th[t].op = "GetAppResourcesPath") =>
                (Returned(t) /\ th[t].res.path = ExpectedResources)

\* a step that stores a directory supplied by the host
SetterStep == s_filesDirPath' # s_filesDirPath \/ s_cacheDirPath' # s_cacheDirPath

\* C10: on Android the setters only store: they leave the cached base, its
\* flag and the filesystem alone, and every resolver returns the path built
\* on the cached base, the same one it returned before the host supplied
\* anything.
C10_SettersOnlyStore ==
    /\ [][SetterStep => UNCHANGED <<fs, initialized, teknoParrotPath, perm, env>>]_vars
    /\ [](platform = "android" =>
            \A t \in threads :
                Returned(t) =>
                   /\ th[t].op \in ResolverOps =>
                         th[t].res.path = teknoParrotPath \o RoleSub(platform, th[t].op)
                   /\ th[t].op = "GetAppResourcesPath" => th[t].res.path = teknoParrotPath
                   /\ (th[t].op \in DOMAIN g.retBefore /\ g.retBefore[th[t].op] # Empty) =>
                         th[t].res.path = g.retBefore[th[t].op])

\* a resolver returned, after the host supplied a directory, what it had
\* returned before
C10_Witness ==
    \E t \in threads :
        /\ platform = "android"
        /\ Returned(t) /\ th[t].op \in ResolverOps
        /\ s_filesDirPath # Empty
        /\ g.retBefore[th[t].op] = th[t].res.path
        /\ th[t].prev.op \in {"SetFilesDirPath", "SetCacheDirPath"}

====
